---------------------------- MODULE Spec2Model ----------------------------
(***************************************************************************)
(* Model of src/results_tracker.py: the daily ingestion run of             *)
(* ResultsTracker.process_daily_results against the GitHub contents API.   *)
(*                                                                         *)
(* Abstractions, stated once:                                              *)
(*  - amounts are integers (whole USD) instead of Python floats;           *)
(*  - a blob SHA is an injective tag of the file content (BlobSha);        *)
(*  - timestamps (processed_at, timestamp) and description strings are     *)
(*    left out of the records: no modelled branch reads them;              *)
(*  - one UTC date: every run has the same today_date_str;                 *)
(*  - a remote call that fails leaves the repository unchanged.            *)
(***************************************************************************)
EXTENDS Integers, Sequences, FiniteSets, TLC

\* Bounds of the model.
MaxRuns == 2
MaxRecords == 2
\* remote calls that fail although the repository would serve them
MaxFaults == 2
\* valuations folded one after another into one DailyMetrics
MaxFolds == 2

\* The ingestion processes: one at a time by design (Spec), a second one
\* for an overlapping run (SpecOverlap).
Procs == {"run1", "run2"}

NoValue == [k |-> "absent"]

(***************************************************************************)
(* JSON values of a result payload.                                        *)
(***************************************************************************)
Num(n) == [k |-> "num", n |-> n]
NumStr(n) == [k |-> "numstr", n |-> n]
Text == [k |-> "text", n |-> 0]
Null == [k |-> "null", n |-> 0]
JsonList == [k |-> "list", n |-> 0]
EmptyDict == [x \in {} |-> NoValue]

\* dict.get(key, default)
DictGet(d, key, default) == IF key \in DOMAIN d THEN d[key] ELSE default

\* float(v): [ok, n].  ValueError for a non-numeric string, TypeError for None.
ToFloat(v) ==
    IF v.k \in {"num", "numstr"} THEN [ok |-> TRUE, n |-> v.n]
    ELSE [ok |-> FALSE, n |-> 0]

(***************************************************************************)
(* AGENT_VALUE_ESTIMATES                                                   *)
(***************************************************************************)
PayloadFieldCfg(f, d, c) ==
    [type |-> "payload_field", field |-> f, default |-> d, value |-> 0,
     count_field |-> "", value_per_item |-> 0, value_category |-> c]
PerItemCfg(v, c) ==
    [type |-> "per_item", field |-> "", default |-> 0, value |-> v,
     count_field |-> "", value_per_item |-> 0, value_category |-> c]
PerItemConditionalCfg(cf, r, c) ==
    [type |-> "per_item_conditional", field |-> "", default |-> 0, value |-> 0,
     count_field |-> cf, value_per_item |-> r, value_category |-> c]
CountOnlyCfg(c) ==
    [type |-> "count_only", field |-> "", default |-> 0, value |-> 0,
     count_field |-> "", value_per_item |-> 0, value_category |-> c]

AGENT_VALUE_ESTIMATES ==
    ("crypto-trading-agent" :> PayloadFieldCfg("pnl_usdt", 0, "crypto")) @@
    ("memecoin-detector-agent" :> PayloadFieldCfg("pnl_usdt", 0, "crypto")) @@
    ("defi-yield-farming-agent" :> PayloadFieldCfg("pnl_usdt", 0, "crypto")) @@
    ("pionex-trader-usdt-v1" :> PayloadFieldCfg("pnl_usdt", 0, "crypto")) @@
    ("github_arbitrage" :> PerItemCfg(125, "fiat")) @@
    ("github-arbitrage-agent" :> PayloadFieldCfg("value_score", 0, "fiat")) @@
    ("ai_wrapper_factory" :> PerItemCfg(1250, "fiat")) @@
    ("api-wrapper-factory-agent" :> PayloadFieldCfg("value_score", 0, "fiat")) @@
    ("saas_template_mill" :> PerItemCfg(6000, "fiat")) @@
    ("automation_broker" :> PerItemCfg(2750, "fiat")) @@
    ("influencer_farm" :>
        PayloadFieldCfg("revenue_generated_usd", 0, "fiat")) @@
    ("course_generator" :>
        PayloadFieldCfg("course_sale_value_usd", 0, "fiat")) @@
    ("patent_scraper" :>
        PerItemConditionalCfg("valuable_patents_found_count", 1000, "fiat")) @@
    ("domain_flipper" :> PayloadFieldCfg("profit_usd", 50, "fiat")) @@
    ("affiliate_army" :> PayloadFieldCfg("commission_usd", 0, "fiat")) @@
    ("lead_magnet_factory" :> PerItemCfg(200, "fiat")) @@
    ("ai_copywriter_swarm" :> PerItemCfg(50, "fiat")) @@
    ("content-generation-agent" :>
        PayloadFieldCfg("estimated_value_usd", 10, "fiat")) @@
    ("price_scraper_network" :>
        PayloadFieldCfg("savings_found_usd", 0, "fiat")) @@
    ("startup_idea_generator" :>
        PerItemConditionalCfg("validated_ideas_count", 100, "fiat")) @@
    ("harvest" :> CountOnlyCfg("operational")) @@
    ("self_healing" :> CountOnlyCfg("operational")) @@
    ("performance_optimization" :> CountOnlyCfg("operational")) @@
    ("financial_management" :> CountOnlyCfg("operational")) @@
    ("unknown_type_default" :> CountOnlyCfg("unknown"))

\* a lookup whose fallback is a fiat policy of value 0
ValueConfigFiatFallback(task_type) ==
    IF task_type \in DOMAIN AGENT_VALUE_ESTIMATES
    THEN AGENT_VALUE_ESTIMATES[task_type]
    ELSE PerItemCfg(0, "fiat")

\* AGENT_VALUE_ESTIMATES.get(task_type, AGENT_VALUE_ESTIMATES["unknown_type_default"])
ValueConfig(task_type) ==
    IF task_type \in DOMAIN AGENT_VALUE_ESTIMATES
    THEN AGENT_VALUE_ESTIMATES[task_type]
    ELSE AGENT_VALUE_ESTIMATES["unknown_type_default"]

(***************************************************************************)
(* ResultsTracker._calculate_task_value.  The result is                    *)
(* [raised, value, category]; raised = TRUE when the Python raises.        *)
(***************************************************************************)
Valuation(v, c) == [raised |-> FALSE, value |-> v, category |-> c]
ValuationRaised == [raised |-> TRUE, value |-> 0, category |-> "none"]

\* final float(task_value) with the (ValueError, TypeError) fallback to 0.0
CoerceOrZero(v) == IF ToFloat(v).ok THEN ToFloat(v).n ELSE 0

\* the configured value with 0 for an absent field, whatever the default
ConfiguredValueZeroDefault(task_type, result_payload) ==
    LET cfg == ValueConfig(task_type) IN
    CASE cfg.type = "per_item" ->
           Valuation(cfg.value, cfg.value_category)
      [] cfg.type = "payload_field" ->
           Valuation(CoerceOrZero(DictGet(result_payload, cfg.field, Num(0))),
                     cfg.value_category)
      [] cfg.type = "per_item_conditional" ->
           LET item_count == DictGet(result_payload, cfg.count_field, Num(0)) IN
           IF item_count.k = "num"
           THEN Valuation(item_count.n * cfg.value_per_item, cfg.value_category)
           ELSE ValuationRaised
      [] OTHER ->
           Valuation(0, cfg.value_category)

ConfiguredValue(task_type, result_payload) ==
    LET cfg == ValueConfig(task_type) IN
    CASE cfg.type = "per_item" ->
           Valuation(cfg.value, cfg.value_category)
      [] cfg.type = "payload_field" ->
           Valuation(CoerceOrZero(DictGet(result_payload, cfg.field,
                                          Num(cfg.default))),
                     cfg.value_category)
      [] cfg.type = "per_item_conditional" ->
           LET item_count == DictGet(result_payload, cfg.count_field, Num(0)) IN
           \* item_count * value_per_item: TypeError for a str or None
           IF item_count.k = "num"
           THEN Valuation(item_count.n * cfg.value_per_item, cfg.value_category)
           ELSE ValuationRaised
      [] OTHER ->
           Valuation(0, cfg.value_category)

\* the valuation without the pnl_usdt branch of lines 201-208
calculate_task_value_configured(task_type, result_payload) ==
    ConfiguredValue(task_type, result_payload)

calculate_task_value(task_type, result_payload) ==
    IF "pnl_usdt" \in DOMAIN result_payload
       /\ ToFloat(result_payload["pnl_usdt"]).ok
    THEN Valuation(ToFloat(result_payload["pnl_usdt"]).n, "crypto")
    ELSE ConfiguredValue(task_type, result_payload)

(***************************************************************************)
(* Result files.  A file name is its list of "_"-separated tokens with the *)
(* ".json" suffix removed; a file's content is named by a content id and   *)
(* JsonLoads gives what json.loads makes of it.                            *)
(***************************************************************************)
Str(s) == [k |-> "str", n |-> 0, s |-> s]
Dict(d) == [k |-> "dict", n |-> 0, d |-> d]

\* The result files agents may write, in the listing order of the contents
\* API (by name).  "harvest_t1" and "solo" hold the same content, so the
\* same blob sha.
ResultFiles ==
    << [name |-> <<"broken", "b1">>, content |-> "badjson"],
       [name |-> <<"github", "arbitrage", "t2">>, content |-> "fiat"],
       [name |-> <<"harvest", "t1">>, content |-> "byname"],
       [name |-> <<"patents", "p1">>, content |-> "badcount"],
       [name |-> <<"solo">>, content |-> "byname"],
       [name |-> <<"trade", "x9">>, content |-> "crypto"] >>

NameOrder == [i \in 1..Len(ResultFiles) |-> ResultFiles[i].name]
Names == {NameOrder[i] : i \in 1..Len(NameOrder)}

JsonLoads(c) ==
    CASE c = "crypto" ->
           [ok |-> TRUE,
            data |-> ("agent_type" :> Str("domain_flipper")) @@
                     ("task_id" :> Str("trade7")) @@
                     ("result" :> Dict("pnl_usdt" :> Num(-12)))]
      [] c = "fiat" ->
           [ok |-> TRUE,
            data |-> ("task_type" :> Str("github_arbitrage")) @@
                     ("result" :> Text)]
      [] c = "byname" ->
           [ok |-> TRUE, data |-> EmptyDict]
      [] c = "badcount" ->
           [ok |-> TRUE,
            data |-> ("agent_type" :> Str("patent_scraper")) @@
                     ("valuable_patents_found_count" :> NumStr(3))]
      [] OTHER ->
           [ok |-> FALSE, data |-> EmptyDict]

\* the blob SHA the contents API reports for a content
BlobSha(content) == <<content>>
NoSha == <<>>

\* file_info["name"].replace(".json", "").split("_", 1)
task_type_from_filename(name) == Head(name)
task_id_from_filename(name) ==
    IF Len(name) > 1 THEN Tail(name) ELSE <<"unknown_task_id">> \o name

\* result_data.get("agent_type", result_data.get("task_type", task_type_from_filename))
TaskType(result_data, name) ==
    DictGet(result_data, "agent_type",
            DictGet(result_data, "task_type",
                    Str(task_type_from_filename(name)))).s

\* result_data.get("task_id", task_id_from_filename)
TaskId(result_data, name) ==
    IF "task_id" \in DOMAIN result_data
    THEN <<result_data["task_id"].s>>
    ELSE task_id_from_filename(name)

\* result_data.get("result", result_data) if isinstance(result_data.get("result"), dict) else result_data
TaskPayload(result_data) ==
    IF "result" \in DOMAIN result_data /\ result_data["result"].k = "dict"
    THEN result_data["result"].d
    ELSE result_data

(***************************************************************************)
(* DailyMetrics                                                            *)
(***************************************************************************)
EmptyMap == [x \in {} |-> 0]

default_metrics ==
    [ grand_total_value_usd |-> 0,
      total_crypto_pnl_usd |-> 0,
      total_fiat_value_usd |-> 0,
      crypto_trades_count |-> 0,
      fiat_tasks_count |-> 0,
      operational_tasks_count |-> 0,
      pnl_by_crypto_agent |-> EmptyMap,
      value_by_fiat_agent |-> EmptyMap,
      tasks_by_operational_agent |-> EmptyMap,
      detailed_value_breakdown |-> <<>>,
      processed_result_file_shas |-> <<>>,
      errors_processing_results |-> <<>> ]

\* d.setdefault(key, 0); d[key] += amount
AddTo(d, key, amount) ==
    IF key \in DOMAIN d THEN [d EXCEPT ![key] = @ + amount]
    ELSE d @@ (key :> amount)

\* a routing that adds an operational value to the fiat total
RouteCategoryOperationalAsFiat(m, task_type, value_usd, value_category) ==
    CASE value_category = "crypto" ->
           [m EXCEPT !.crypto_trades_count = @ + 1,
                     !.total_crypto_pnl_usd = @ + value_usd,
                     !.pnl_by_crypto_agent = AddTo(@, task_type, value_usd)]
      [] value_category = "fiat" ->
           [m EXCEPT !.fiat_tasks_count = @ + 1,
                     !.total_fiat_value_usd = @ + value_usd,
                     !.value_by_fiat_agent = AddTo(@, task_type, value_usd)]
      [] value_category = "operational" ->
           [m EXCEPT !.operational_tasks_count = @ + 1,
                     !.total_fiat_value_usd = @ + value_usd,
                     !.tasks_by_operational_agent = AddTo(@, task_type, 1)]
      [] OTHER -> m

\* lines 312-325: route the value into its category bucket
RouteCategory(m, task_type, value_usd, value_category) ==
    CASE value_category = "crypto" ->
           [m EXCEPT !.crypto_trades_count = @ + 1,
                     !.total_crypto_pnl_usd = @ + value_usd,
                     !.pnl_by_crypto_agent = AddTo(@, task_type, value_usd)]
      [] value_category = "fiat" ->
           [m EXCEPT !.fiat_tasks_count = @ + 1,
                     !.total_fiat_value_usd = @ + value_usd,
                     !.value_by_fiat_agent = AddTo(@, task_type, value_usd)]
      [] value_category = "operational" ->
           [m EXCEPT !.operational_tasks_count = @ + 1,
                     !.tasks_by_operational_agent = AddTo(@, task_type, 1)]
      [] OTHER -> m

\* the grand total without the fiat side
GrandTotalCryptoOnly(m) == m.total_crypto_pnl_usd

\* line 327
GrandTotal(m) == m.total_crypto_pnl_usd + m.total_fiat_value_usd

\* the entry of detailed_value_breakdown; file_sha is a history field the
\* Python does not store, kept to tell which blob an event came from
Event(task_id, file_path, task_type, v, file_sha) ==
    [ task_id |-> task_id, file_path |-> file_path, agent_type |-> task_type,
      value_usd |-> v.value, value_category |-> v.category,
      file_sha |-> file_sha ]

\* a fold that records the version tag and appends no event
FoldWithoutEvent(m, task_id, file_path, task_type, v, file_sha) ==
    LET routed == RouteCategory(m, task_type, v.value, v.category) IN
    [routed EXCEPT
       !.grand_total_value_usd = GrandTotal(routed),
       !.processed_result_file_shas = Append(@, file_sha)]

\* a fold that does not record the version tag
FoldWithoutTag(m, task_id, file_path, task_type, v, file_sha) ==
    LET routed == RouteCategory(m, task_type, v.value, v.category) IN
    [routed EXCEPT
       !.grand_total_value_usd = GrandTotal(routed),
       !.detailed_value_breakdown =
           Append(@, Event(task_id, file_path, task_type, v, file_sha))]

\* lines 312-341: fold one valuation into daily_metrics
Fold(m, task_id, file_path, task_type, v, file_sha) ==
    LET routed == RouteCategory(m, task_type, v.value, v.category) IN
    [routed EXCEPT
       !.grand_total_value_usd = GrandTotal(routed),
       !.detailed_value_breakdown =
           Append(@, Event(task_id, file_path, task_type, v, file_sha)),
       !.processed_result_file_shas = Append(@, file_sha)]

\* a gate that never recognises a version tag
AlreadyProcessedNever(m, file_sha) == FALSE

\* line 288: file_sha in daily_metrics["processed_result_file_shas"]
AlreadyProcessed(m, file_sha) ==
    \E i \in 1..Len(m.processed_result_file_shas) :
        m.processed_result_file_shas[i] = file_sha

\* an entry of errors_processing_results
ErrorEntry(file_path, error) == [file_path |-> file_path, error |-> error]

AddError(m, file_path, error) ==
    [m EXCEPT !.errors_processing_results = Append(@, ErrorEntry(file_path, error))]

(***************************************************************************)
(* State.                                                                  *)
(*  Repository: pending (outputs/<date>/), archive                         *)
(*  (processed_outputs/<date>/), metrics_file (metrics/daily_metrics_      *)
(*  <date>.json).                                                          *)
(*  Per run: pc and the locals of process_daily_results.                   *)
(*  History: calls (remote calls of the run's last step), and per run      *)
(*  persist_writes, persist_failed, soft_failed, snapshot_at_load;         *)
(*  written (the files agents put in pending storage), runs, faults.       *)
(***************************************************************************)
VARIABLES pending, archive, metrics_file,
          pc, daily_metrics, metrics_file_sha, result_files, idx,
          new_files_processed_this_run,
          calls, persist_writes, persist_failed,
          soft_failed, snapshot_at_load,
          written, runs, faults,
          compute, acc

repoVars == <<pending, archive, metrics_file>>
localVars == <<daily_metrics, metrics_file_sha, result_files, idx,
               new_files_processed_this_run>>
histVars == <<persist_writes, persist_failed, soft_failed, snapshot_at_load>>
vars == <<pending, archive, metrics_file,
          pc, daily_metrics, metrics_file_sha, result_files, idx,
          new_files_processed_this_run,
          calls, persist_writes, persist_failed,
          soft_failed, snapshot_at_load,
          written, runs, faults, compute, acc>>

\* compute: one call of _calculate_task_value, its arguments and result;
\* acc: a DailyMetrics that valuations are folded into (lines 312-341)
pureVars == <<compute, acc>>
pipelineVars ==
    <<pending, archive, metrics_file, pc, daily_metrics, metrics_file_sha,
      result_files, idx, new_files_processed_this_run, calls, persist_writes,
      persist_failed, soft_failed, snapshot_at_load, written, runs, faults>>

Absent == "absent"

AbsentFile == [kind |-> "absent", m |-> default_metrics]
InvalidFile == [kind |-> "invalid", m |-> default_metrics]
MetricsFile(m) == [kind |-> "metrics", m |-> m]

ShaOfFile(f) == IF f.kind = "absent" THEN NoSha ELSE BlobSha(f)

\* The contents API accepts a PUT only when the sha sent is the sha of the
\* file as stored, and none is sent for a file that does not exist.
PutAccepted(stored_sha, sent_sha) == sent_sha = stored_sha

\* The contents API accepts a DELETE only of an existing file at that sha.
DeleteAccepted(stored_sha, sent_sha) ==
    stored_sha # NoSha /\ sent_sha = stored_sha

PendingSha(n) == IF pending[n] = Absent THEN NoSha ELSE BlobSha(pending[n])
ArchiveSha(n) == IF archive[n] = Absent THEN NoSha ELSE BlobSha(archive[n])

Call(op, path) == <<op, path>>
MetricsPath == <<"metrics">>
DashboardPath == <<"dashboard">>
OutputsPath(n) == <<"outputs">> \o n
ArchivePath(n) == <<"processed_outputs">> \o n

\* no process: none started yet, or the last one has gone
Idle(p) == pc[p] = "Idle"
\* process_daily_results has returned ("Done") or raised ("Error")
Terminated(p) == pc[p] \in {"Idle", "Done", "Error"}
PastListing(p) ==
    pc[p] \in {"Ingesting", "Archiving", "Deleting", "Persisting", "Reporting"}

\* no call of _calculate_task_value under way
NoResult == [raised |-> FALSE, value |-> 0, category |-> "none"]
NoCall == [task_type |-> "", payload |-> EmptyDict, done |-> FALSE,
           result |-> NoResult]

\* the repository and the processes before the first run
PipelineInit ==
    /\ pending = [n \in Names |-> Absent]
    /\ archive = [n \in Names |-> Absent]
    /\ metrics_file \in {AbsentFile, InvalidFile}
    /\ pc = [p \in Procs |-> "Idle"]
    /\ daily_metrics = [p \in Procs |-> default_metrics]
    /\ metrics_file_sha = [p \in Procs |-> NoSha]
    /\ result_files = [p \in Procs |-> <<>>]
    /\ idx = [p \in Procs |-> 1]
    /\ new_files_processed_this_run = [p \in Procs |-> 0]
    /\ calls = [p \in Procs |-> <<>>]
    /\ persist_writes = [p \in Procs |-> 0]
    /\ persist_failed = [p \in Procs |-> FALSE]
    /\ soft_failed = [p \in Procs |-> {}]
    /\ snapshot_at_load = [p \in Procs |-> NoSha]
    /\ written = {}
    /\ runs = 0
    /\ faults = 0

Init ==
    /\ PipelineInit
    /\ compute = NoCall
    /\ acc = default_metrics

(***************************************************************************)
(* An agent writes a result file into outputs/<date>/.                     *)
(***************************************************************************)
\* a remote call fails although the repository would have served it: a
\* connection error, a 5xx, an exhausted rate limit
InjectFault ==
    /\ faults < MaxFaults
    /\ faults' = faults + 1

\* A run sees pending storage only through its listing, so a file written
\* after a run's listing is, for that run, a file written after the run:
\* writes are taken between runs, or before the listing of a run that
\* overlaps one already past its own.
WriteAllowed ==
    \/ \A p \in Procs : Idle(p)
    \/ \E p, q \in Procs : pc[p] = "Discovering" /\ PastListing(q)

WriteRecord(f) ==
    /\ UNCHANGED pureVars
    /\ UNCHANGED faults
    /\ WriteAllowed
    /\ Cardinality(written) < MaxRecords
    /\ f \notin written
    /\ pending' = [pending EXCEPT ![f.name] = f.content]
    /\ written' = written \cup {f}
    /\ UNCHANGED <<archive, metrics_file, pc, localVars, calls, histVars, runs>>

(***************************************************************************)
(* tracker.run(): a new process starts process_daily_results.              *)
(***************************************************************************)
StartRun(p) ==
    /\ UNCHANGED pureVars
    /\ UNCHANGED faults
    /\ Idle(p)
    /\ runs < MaxRuns
    /\ runs' = runs + 1
    /\ pc' = [pc EXCEPT ![p] = "Loading"]
    /\ daily_metrics' = [daily_metrics EXCEPT ![p] = default_metrics]
    /\ metrics_file_sha' = [metrics_file_sha EXCEPT ![p] = NoSha]
    /\ result_files' = [result_files EXCEPT ![p] = <<>>]
    /\ idx' = [idx EXCEPT ![p] = 1]
    /\ new_files_processed_this_run' =
           [new_files_processed_this_run EXCEPT ![p] = 0]
    /\ calls' = [calls EXCEPT ![p] = <<>>]
    /\ persist_writes' = [persist_writes EXCEPT ![p] = 0]
    /\ persist_failed' = [persist_failed EXCEPT ![p] = FALSE]
    /\ soft_failed' = [soft_failed EXCEPT ![p] = {}]
    /\ snapshot_at_load' = [snapshot_at_load EXCEPT ![p] = NoSha]
    /\ UNCHANGED <<repoVars, written>>

\* the process is gone: so are the locals of process_daily_results and the
\* history of its steps (persist_failed is kept until the next run)
DropLocals(p) ==
    /\ persist_writes' = [persist_writes EXCEPT ![p] = 0]
    /\ soft_failed' = [soft_failed EXCEPT ![p] = {}]
    /\ snapshot_at_load' = [snapshot_at_load EXCEPT ![p] = NoSha]
    /\ daily_metrics' = [daily_metrics EXCEPT ![p] = default_metrics]
    /\ metrics_file_sha' = [metrics_file_sha EXCEPT ![p] = NoSha]
    /\ result_files' = [result_files EXCEPT ![p] = <<>>]
    /\ idx' = [idx EXCEPT ![p] = 1]
    /\ new_files_processed_this_run' =
           [new_files_processed_this_run EXCEPT ![p] = 0]

\* the process that returned or raised is gone
Exit(p) ==
    /\ UNCHANGED pureVars
    /\ UNCHANGED faults
    /\ pc[p] \in {"Done", "Error"}
    /\ pc' = [pc EXCEPT ![p] = "Idle"]
    /\ persist_failed' = [persist_failed EXCEPT ![p] = FALSE]
    /\ UNCHANGED <<repoVars, localVars, calls, persist_writes, soft_failed,
                   snapshot_at_load, written, runs>>

\* ordinary process termination in the middle of a run
Interrupt(p) ==
    /\ UNCHANGED pureVars
    /\ InjectFault
    /\ ~Terminated(p)
    /\ pc' = [pc EXCEPT ![p] = "Idle"]
    /\ calls' = [calls EXCEPT ![p] = <<>>]
    /\ persist_failed' = [persist_failed EXCEPT ![p] = FALSE]
    /\ DropLocals(p)
    /\ UNCHANGED <<repoVars, written, runs>>

\* a remote call raised out of process_daily_results: the process ends
\* with the traceback
Raise(p) ==
    /\ pc' = [pc EXCEPT ![p] = "Error"]
    /\ calls' = [calls EXCEPT ![p] = <<>>]
    /\ DropLocals(p)

(***************************************************************************)
(* _load_daily_metrics (line 268)                                          *)
(***************************************************************************)
\* what _load_daily_metrics returns for the file the GET returned
LoadedMetrics(file) ==
    IF file.kind = "metrics" THEN file.m ELSE default_metrics
LoadedSha(file) ==
    IF file.kind = "metrics" THEN BlobSha(file) ELSE NoSha

LoadOk(p) ==
    /\ UNCHANGED pureVars
    /\ pc[p] = "Loading"
    /\ pc' = [pc EXCEPT ![p] = "Discovering"]
    /\ \E got \in {metrics_file, AbsentFile} :
         /\ IF got = metrics_file THEN UNCHANGED faults ELSE InjectFault
         /\ daily_metrics' = [daily_metrics EXCEPT ![p] = LoadedMetrics(got)]
         /\ metrics_file_sha' = [metrics_file_sha EXCEPT ![p] = LoadedSha(got)]
         /\ snapshot_at_load' = [snapshot_at_load EXCEPT ![p] = ShaOfFile(got)]
    /\ calls' = [calls EXCEPT ![p] = <<Call("GET", MetricsPath)>>]
    /\ UNCHANGED <<repoVars, result_files, idx, new_files_processed_this_run,
                   persist_writes, persist_failed,
                   soft_failed, written, runs>>

LoadRaise(p) ==
    /\ UNCHANGED pureVars
    /\ InjectFault
    /\ pc[p] = "Loading"
    /\ Raise(p)
    /\ UNCHANGED <<repoVars, persist_failed, written, runs>>

(***************************************************************************)
(* list_files (line 271) and the empty-listing branch (line 273)           *)
(***************************************************************************)
FileInfo(n) == [name |-> n, sha |-> PendingSha(n)]

Listing ==
    LET present == SelectSeq(NameOrder, LAMBDA n : pending[n] # Absent) IN
    [i \in 1..Len(present) |-> FileInfo(present[i])]

DiscoverOk(p) ==
    /\ UNCHANGED pureVars
    /\ pc[p] = "Discovering"
    /\ \E got \in {Listing, <<>>} :
         /\ IF got = Listing THEN UNCHANGED faults ELSE InjectFault
         /\ result_files' = [result_files EXCEPT ![p] = got]
         /\ pc' = [pc EXCEPT ![p] =
                      IF got = <<>> THEN "Persisting" ELSE "Ingesting"]
    /\ idx' = [idx EXCEPT ![p] = 1]
    /\ calls' = [calls EXCEPT ![p] = <<Call("LIST", <<"outputs">>)>>]
    /\ UNCHANGED <<repoVars, daily_metrics, metrics_file_sha,
                   new_files_processed_this_run, histVars, written, runs>>

DiscoverRaise(p) ==
    /\ UNCHANGED pureVars
    /\ InjectFault
    /\ pc[p] = "Discovering"
    /\ Raise(p)
    /\ UNCHANGED <<repoVars, persist_failed, written, runs>>

(***************************************************************************)
(* The loop over result_files (lines 284-354)                              *)
(***************************************************************************)
InLoop(p) == pc[p] = "Ingesting" /\ idx[p] <= Len(result_files[p])
file_info(p) == result_files[p][idx[p]]

\* the loop moves to the next file, or leaves to line 356
NextFile(p) ==
    /\ idx' = [idx EXCEPT ![p] = @ + 1]
    /\ pc' = [pc EXCEPT ![p] =
                 IF idx[p] + 1 > Len(result_files[p])
                 THEN "Persisting" ELSE "Ingesting"]

\* an error entry is appended and the loop goes on
SoftError(p, error) ==
    /\ daily_metrics' = [daily_metrics EXCEPT ![p] =
                            AddError(@, file_info(p).name, error)]
    /\ soft_failed' = [soft_failed EXCEPT ![p] = @ \cup {file_info(p).name}]
    /\ NextFile(p)

\* a skip that counts the record as newly processed
SkipProcessedCounted(p) ==
    /\ UNCHANGED pureVars
    /\ UNCHANGED faults
    /\ InLoop(p)
    /\ AlreadyProcessed(daily_metrics[p], file_info(p).sha)
    /\ NextFile(p)
    /\ calls' = [calls EXCEPT ![p] = <<>>]
    /\ new_files_processed_this_run' =
           [new_files_processed_this_run EXCEPT ![p] = @ + 1]
    /\ UNCHANGED <<repoVars, daily_metrics, metrics_file_sha, result_files,
                   histVars, written, runs>>

\* lines 288-289
SkipProcessed(p) ==
    /\ UNCHANGED pureVars
    /\ UNCHANGED faults
    /\ InLoop(p)
    /\ AlreadyProcessed(daily_metrics[p], file_info(p).sha)
    /\ NextFile(p)
    /\ calls' = [calls EXCEPT ![p] = <<>>]
    /\ UNCHANGED <<repoVars, daily_metrics, metrics_file_sha, result_files,
                   new_files_processed_this_run, histVars, written, runs>>

ReadCall(p) == <<Call("GET", OutputsPath(file_info(p).name))>>

\* line 292 raises: it is outside the try of line 299
ReadRaise(p) ==
    /\ UNCHANGED pureVars
    /\ InjectFault
    /\ InLoop(p)
    /\ ~AlreadyProcessed(daily_metrics[p], file_info(p).sha)
    /\ Raise(p)
    /\ UNCHANGED <<repoVars, persist_failed, written, runs>>

\* lines 293-297: no content (the GET returned nothing, or an empty file)
ReadFail(p) ==
    /\ UNCHANGED pureVars
    /\ InLoop(p)
    /\ ~AlreadyProcessed(daily_metrics[p], file_info(p).sha)
    /\ \E got \in {pending[file_info(p).name], Absent} :
         /\ got \in {Absent, "empty"}
         /\ IF got = pending[file_info(p).name]
            THEN UNCHANGED faults ELSE InjectFault
    /\ SoftError(p, "Could not get content")
    /\ calls' = [calls EXCEPT ![p] = ReadCall(p)]
    /\ UNCHANGED <<repoVars, metrics_file_sha, result_files,
                   new_files_processed_this_run, persist_writes,
                   persist_failed, snapshot_at_load,
                   written, runs>>

Readable(p) ==
    /\ InLoop(p)
    /\ ~AlreadyProcessed(daily_metrics[p], file_info(p).sha)
    /\ pending[file_info(p).name] \notin {Absent, "empty"}

result_data(p) == JsonLoads(pending[file_info(p).name]).data
task_type(p) == TaskType(result_data(p), file_info(p).name)
task_value(p) == calculate_task_value(task_type(p), TaskPayload(result_data(p)))

\* lines 345-348: json.JSONDecodeError
ParseFail(p) ==
    /\ UNCHANGED pureVars
    /\ UNCHANGED faults
    /\ Readable(p)
    /\ ~JsonLoads(pending[file_info(p).name]).ok
    /\ SoftError(p, "Error parsing JSON")
    /\ calls' = [calls EXCEPT ![p] = ReadCall(p)]
    /\ UNCHANGED <<repoVars, metrics_file_sha, result_files,
                   new_files_processed_this_run, persist_writes,
                   persist_failed, snapshot_at_load,
                   written, runs>>

\* lines 349-354: an exception of lines 300-310, before the fold
ValuationFail(p) ==
    /\ UNCHANGED pureVars
    /\ UNCHANGED faults
    /\ Readable(p)
    /\ JsonLoads(pending[file_info(p).name]).ok
    /\ task_value(p).raised
    /\ SoftError(p, "Unexpected error")
    /\ calls' = [calls EXCEPT ![p] = ReadCall(p)]
    /\ UNCHANGED <<repoVars, metrics_file_sha, result_files,
                   new_files_processed_this_run, persist_writes,
                   persist_failed, snapshot_at_load,
                   written, runs>>

\* lines 300-341: the record is valued and folded; line 343 comes next
FoldRecord(p) ==
    /\ UNCHANGED pureVars
    /\ UNCHANGED faults
    /\ Readable(p)
    /\ JsonLoads(pending[file_info(p).name]).ok
    /\ ~task_value(p).raised
    /\ daily_metrics' = [daily_metrics EXCEPT ![p] =
           Fold(@, TaskId(result_data(p), file_info(p).name),
                file_info(p).name, task_type(p), task_value(p),
                file_info(p).sha)]
    /\ new_files_processed_this_run' =
           [new_files_processed_this_run EXCEPT ![p] = @ + 1]
    /\ pc' = [pc EXCEPT ![p] = "Archiving"]
    /\ calls' = [calls EXCEPT ![p] = ReadCall(p)]
    /\ UNCHANGED <<repoVars, metrics_file_sha, result_files, idx, histVars,
                   written, runs>>

(***************************************************************************)
(* _archive_processed_file (lines 236-264), called at line 343             *)
(***************************************************************************)
CopyCalls(p) ==
    << Call("GET", OutputsPath(file_info(p).name)),
       Call("GET", ArchivePath(file_info(p).name)),
       Call("PUT", ArchivePath(file_info(p).name)) >>

\* lines 245-255 pass: the content is written under the archive path
ArchiveCopyOk(p) ==
    /\ UNCHANGED pureVars
    /\ UNCHANGED faults
    /\ pc[p] = "Archiving"
    /\ pending[file_info(p).name] # Absent
    /\ PutAccepted(ArchiveSha(file_info(p).name), ArchiveSha(file_info(p).name))
    /\ archive' = [archive EXCEPT ![file_info(p).name] =
                      pending[file_info(p).name]]
    /\ pc' = [pc EXCEPT ![p] = "Deleting"]
    /\ calls' = [calls EXCEPT ![p] = CopyCalls(p)]
    /\ UNCHANGED <<pending, metrics_file, localVars, histVars, written, runs>>

\* a failed copy after which the pending file is deleted all the same
ArchiveCopyFalseThenDelete(p) ==
    /\ UNCHANGED pureVars
    /\ pc[p] = "Archiving"
    /\ pending[file_info(p).name] # Absent
    /\ calls' = [calls EXCEPT ![p] = CopyCalls(p)]
    /\ InjectFault
    /\ soft_failed' = [soft_failed EXCEPT ![p] = @ \cup {file_info(p).name}]
    /\ pc' = [pc EXCEPT ![p] = "Deleting"]
    /\ UNCHANGED <<repoVars, localVars, persist_writes,
                   persist_failed, snapshot_at_load,
                   written, runs>>

\* lines 246-248 or 253-255: return False, printed only
ArchiveCopyFalse(p) ==
    /\ UNCHANGED pureVars
    /\ pc[p] = "Archiving"
    /\ \/ /\ pending[file_info(p).name] = Absent
          /\ calls' = [calls EXCEPT ![p] = SubSeq(CopyCalls(p), 1, 1)]
          /\ UNCHANGED faults
       \/ /\ pending[file_info(p).name] # Absent
          /\ \E k \in {1, 3} :
                calls' = [calls EXCEPT ![p] = SubSeq(CopyCalls(p), 1, k)]
          /\ InjectFault
    /\ soft_failed' = [soft_failed EXCEPT ![p] = @ \cup {file_info(p).name}]
    /\ NextFile(p)
    /\ UNCHANGED <<repoVars, daily_metrics, metrics_file_sha, result_files,
                   new_files_processed_this_run, persist_writes,
                   persist_failed, snapshot_at_load,
                   written, runs>>

\* a call of lines 245-253 raises: caught at line 349
ArchiveCopyRaise(p) ==
    /\ UNCHANGED pureVars
    /\ InjectFault
    /\ pc[p] = "Archiving"
    /\ \E k \in 1..3 : calls' = [calls EXCEPT ![p] = SubSeq(CopyCalls(p), 1, k)]
    /\ SoftError(p, "Unexpected error")
    /\ UNCHANGED <<repoVars, metrics_file_sha, result_files,
                   new_files_processed_this_run, persist_writes,
                   persist_failed, snapshot_at_load,
                   written, runs>>

DeleteCalls(p) == <<Call("DELETE", OutputsPath(file_info(p).name))>>

\* line 259: the pending file is deleted
ArchiveDeleteOk(p) ==
    /\ UNCHANGED pureVars
    /\ UNCHANGED faults
    /\ pc[p] = "Deleting"
    /\ DeleteAccepted(PendingSha(file_info(p).name), file_info(p).sha)
    /\ pending' = [pending EXCEPT ![file_info(p).name] = Absent]
    /\ NextFile(p)
    /\ calls' = [calls EXCEPT ![p] = DeleteCalls(p)]
    /\ UNCHANGED <<archive, metrics_file, daily_metrics, metrics_file_sha,
                   result_files, new_files_processed_this_run, histVars,
                   written, runs>>

\* line 143: delete_file returns True for the {} of an exhausted retry loop
\* (line 112) although nothing was deleted
ArchiveDeleteUnnoticed(p) ==
    /\ UNCHANGED pureVars
    /\ InjectFault
    /\ pc[p] = "Deleting"
    /\ soft_failed' = [soft_failed EXCEPT ![p] = @ \cup {file_info(p).name}]
    /\ NextFile(p)
    /\ calls' = [calls EXCEPT ![p] = DeleteCalls(p)]
    /\ UNCHANGED <<repoVars, daily_metrics, metrics_file_sha, result_files,
                   new_files_processed_this_run, persist_writes,
                   persist_failed, snapshot_at_load,
                   written, runs>>

\* line 259 raises: caught at line 349
ArchiveDeleteRaise(p) ==
    /\ UNCHANGED pureVars
    /\ pc[p] = "Deleting"
    /\ IF DeleteAccepted(PendingSha(file_info(p).name), file_info(p).sha)
       THEN InjectFault ELSE UNCHANGED faults
    /\ SoftError(p, "Unexpected error")
    /\ calls' = [calls EXCEPT ![p] = DeleteCalls(p)]
    /\ UNCHANGED <<repoVars, metrics_file_sha, result_files,
                   new_files_processed_this_run, persist_writes,
                   persist_failed, snapshot_at_load,
                   written, runs>>

(***************************************************************************)
(* Saving the metrics: lines 273-276 (empty listing) and 356-363           *)
(***************************************************************************)
\* a save on every empty listing
SaveWhenEmptyAlways(p) == TRUE

\* line 275
SaveWhenEmpty(p) == metrics_file_sha[p] = NoSha

\* line 356
SaveAfterIngest(p) ==
    \/ new_files_processed_this_run[p] > 0
    \/ daily_metrics[p].errors_processing_results # <<>>

ShouldSave(p) ==
    IF result_files[p] = <<>> THEN SaveWhenEmpty(p) ELSE SaveAfterIngest(p)

\* the sha _save_daily_metrics passes to create_or_update_file
SaveSha(p) == metrics_file_sha[p]

SaveCalls == <<Call("PUT", MetricsPath)>>

PersistNothing(p) ==
    /\ UNCHANGED pureVars
    /\ UNCHANGED faults
    /\ pc[p] = "Persisting"
    /\ ~ShouldSave(p)
    /\ pc' = [pc EXCEPT ![p] = "Reporting"]
    /\ calls' = [calls EXCEPT ![p] = <<>>]
    /\ UNCHANGED <<repoVars, localVars, histVars, written, runs>>

\* a save that stores an empty DailyMetrics instead of the accumulated one
PersistOkEmpty(p) ==
    /\ UNCHANGED pureVars
    /\ UNCHANGED faults
    /\ pc[p] = "Persisting"
    /\ ShouldSave(p)
    /\ PutAccepted(ShaOfFile(metrics_file), SaveSha(p))
    /\ metrics_file' = MetricsFile(default_metrics)
    /\ persist_writes' = [persist_writes EXCEPT ![p] = @ + 1]
    /\ pc' = [pc EXCEPT ![p] = "Reporting"]
    /\ metrics_file_sha' = [metrics_file_sha EXCEPT ![p] =
           IF result_files[p] = <<>> THEN @ ELSE BlobSha(metrics_file')]
    /\ calls' = [calls EXCEPT ![p] =
           IF result_files[p] = <<>> THEN SaveCalls
           ELSE SaveCalls \o <<Call("GET", MetricsPath)>>]
    /\ UNCHANGED <<pending, archive, daily_metrics, result_files, idx,
                   new_files_processed_this_run, persist_failed,
                   soft_failed, snapshot_at_load, written, runs>>

\* the PUT is accepted; after line 357 the sha is read again (line 359)
PersistOk(p) ==
    /\ UNCHANGED pureVars
    /\ UNCHANGED faults
    /\ pc[p] = "Persisting"
    /\ ShouldSave(p)
    /\ PutAccepted(ShaOfFile(metrics_file), SaveSha(p))
    /\ metrics_file' = MetricsFile(daily_metrics[p])
    /\ persist_writes' = [persist_writes EXCEPT ![p] = @ + 1]
    /\ pc' = [pc EXCEPT ![p] = "Reporting"]
    /\ metrics_file_sha' = [metrics_file_sha EXCEPT ![p] =
           IF result_files[p] = <<>> THEN @ ELSE BlobSha(metrics_file')]
    /\ calls' = [calls EXCEPT ![p] =
           IF result_files[p] = <<>> THEN SaveCalls
           ELSE SaveCalls \o <<Call("GET", MetricsPath)>>]
    /\ UNCHANGED <<pending, archive, daily_metrics, result_files, idx,
                   new_files_processed_this_run, persist_failed,
                   soft_failed, snapshot_at_load, written, runs>>

\* the PUT is accepted and the GET of line 359 raises
PersistOkThenRaise(p) ==
    /\ UNCHANGED pureVars
    /\ InjectFault
    /\ pc[p] = "Persisting"
    /\ result_files[p] # <<>>
    /\ SaveAfterIngest(p)
    /\ PutAccepted(ShaOfFile(metrics_file), SaveSha(p))
    /\ metrics_file' = MetricsFile(daily_metrics[p])
    /\ Raise(p)
    /\ UNCHANGED <<pending, archive, persist_failed, written, runs>>

\* create_or_update_file returns a falsy value: printed (line 361), or the
\* result is not looked at (line 276)
PersistFalse(p) ==
    /\ UNCHANGED pureVars
    /\ InjectFault
    /\ pc[p] = "Persisting"
    /\ ShouldSave(p)
    /\ persist_writes' = [persist_writes EXCEPT ![p] = @ + 1]
    /\ persist_failed' = [persist_failed EXCEPT ![p] = TRUE]
    /\ pc' = [pc EXCEPT ![p] = "Reporting"]
    /\ calls' = [calls EXCEPT ![p] = SaveCalls]
    /\ UNCHANGED <<repoVars, localVars, soft_failed, snapshot_at_load,
                   written, runs>>

\* the PUT raises (a 409 or 422 of a rejected sha, after the retries)
PersistRaise(p) ==
    /\ UNCHANGED pureVars
    /\ pc[p] = "Persisting"
    /\ ShouldSave(p)
    /\ IF PutAccepted(ShaOfFile(metrics_file), SaveSha(p))
       THEN InjectFault ELSE UNCHANGED faults
    /\ persist_failed' = [persist_failed EXCEPT ![p] = TRUE]
    /\ Raise(p)
    /\ UNCHANGED <<repoVars, written, runs>>

(***************************************************************************)
(* generate_dashboard_markdown (lines 277, 365)                            *)
(***************************************************************************)
DashboardCalls == <<Call("GET", DashboardPath), Call("PUT", DashboardPath)>>

\* the dashboard is written, or "Error updating dashboard markdown." is
\* printed; process_daily_results returns
ReportDone(p) ==
    /\ UNCHANGED pureVars
    /\ UNCHANGED faults
    /\ pc[p] = "Reporting"
    /\ pc' = [pc EXCEPT ![p] = "Done"]
    /\ calls' = [calls EXCEPT ![p] = <<>>]
    /\ DropLocals(p)
    /\ UNCHANGED <<repoVars, persist_failed, written, runs>>

\* a call of lines 424-427 raises
ReportRaise(p) ==
    /\ UNCHANGED pureVars
    /\ InjectFault
    /\ pc[p] = "Reporting"
    /\ Raise(p)
    /\ UNCHANGED <<repoVars, persist_failed, written, runs>>

\* tracker.run() is started by one scheduled job at a time
Next ==
    \/ \E i \in 1..Len(ResultFiles) : WriteRecord(ResultFiles[i])
    \/ \E p \in {"run1"} :
         \/ StartRun(p)
         \/ Exit(p)
         \/ Interrupt(p)
         \/ LoadOk(p)
         \/ LoadRaise(p)
         \/ DiscoverOk(p)
         \/ DiscoverRaise(p)
         \/ SkipProcessed(p)
         \/ ReadRaise(p)
         \/ ReadFail(p)
         \/ ParseFail(p)
         \/ ValuationFail(p)
         \/ FoldRecord(p)
         \/ ArchiveCopyOk(p)
         \/ ArchiveCopyFalse(p)
         \/ ArchiveCopyRaise(p)
         \/ ArchiveDeleteOk(p)
         \/ ArchiveDeleteUnnoticed(p)
         \/ ArchiveDeleteRaise(p)
         \/ PersistNothing(p)
         \/ PersistOk(p)
         \/ PersistOkThenRaise(p)
         \/ PersistFalse(p)
         \/ PersistRaise(p)
         \/ ReportDone(p)
         \/ ReportRaise(p)

Spec == Init /\ [][Next]_vars

\* a second job overlaps the first
NextOverlap ==
    \/ \E i \in 1..Len(ResultFiles) : WriteRecord(ResultFiles[i])
    \/ \E p \in Procs :
         \/ StartRun(p)
         \/ Exit(p)
         \/ Interrupt(p)
         \/ LoadOk(p)
         \/ LoadRaise(p)
         \/ DiscoverOk(p)
         \/ DiscoverRaise(p)
         \/ SkipProcessed(p)
         \/ ReadRaise(p)
         \/ ReadFail(p)
         \/ ParseFail(p)
         \/ ValuationFail(p)
         \/ FoldRecord(p)
         \/ ArchiveCopyOk(p)
         \/ ArchiveCopyFalse(p)
         \/ ArchiveCopyRaise(p)
         \/ ArchiveDeleteOk(p)
         \/ ArchiveDeleteUnnoticed(p)
         \/ ArchiveDeleteRaise(p)
         \/ PersistNothing(p)
         \/ PersistOk(p)
         \/ PersistOkThenRaise(p)
         \/ PersistFalse(p)
         \/ PersistRaise(p)
         \/ ReportDone(p)
         \/ ReportRaise(p)

SpecOverlap == Init /\ [][NextOverlap]_vars

(***************************************************************************)
(* _calculate_task_value on its own (lines 194-234): a task type and a     *)
(* payload are chosen, then the function is applied.                       *)
(***************************************************************************)
\* the task types of the table and one that is not in it
TaskTypes == DOMAIN AGENT_VALUE_ESTIMATES \cup {"solo"}

\* what a payload may hold under a key
JsonValues ==
    {Num(-12), Num(0), Num(3), NumStr(5), Text, Null, JsonList, Dict(EmptyDict)}

\* the payload keys some policy reads: the profit-and-loss field, the field
\* of a payload_field policy, the count field of a per_item_conditional one
PayloadKeys == {"pnl_usdt", "profit_usd", "valuable_patents_found_count"}

Payloads ==
    UNION {[ks -> JsonValues] : ks \in SUBSET PayloadKeys}

\* a task type and a payload are given; nothing else is going on
InitCompute ==
    /\ PipelineInit
    /\ metrics_file = AbsentFile
    /\ acc = default_metrics
    /\ \E t \in TaskTypes, d \in Payloads :
          compute = [task_type |-> t, payload |-> d, done |-> FALSE,
                     result |-> NoResult]

\* value_usd, value_category, _ = self._calculate_task_value(task_type, task_payload)
Compute ==
    /\ ~compute.done
    /\ compute.task_type \in TaskTypes
    /\ compute' = [compute EXCEPT
                      !.done = TRUE,
                      !.result = calculate_task_value(compute.task_type,
                                                      compute.payload)]
    /\ UNCHANGED <<pipelineVars, acc>>

NextCompute == Compute

SpecCompute == InitCompute /\ [][NextCompute]_vars

(***************************************************************************)
(* The fold on its own (lines 312-341): valuations of any category and     *)
(* amount are folded one after another into an empty DailyMetrics.         *)
(***************************************************************************)
Amounts == {-5, 0, 7}
Categories == {"crypto", "fiat", "operational", "unknown"}
FoldTypes == {"domain_flipper", "solo"}
\* the records folded, in order: their names, and contents of their own
FoldNames == <<"r1", "r2", "r3", "r4">>

InitFold ==
    /\ PipelineInit
    /\ metrics_file = AbsentFile
    /\ compute = NoCall
    /\ acc = default_metrics

FoldValuation(amount, category, agent) ==
    LET k == Len(acc.detailed_value_breakdown) + 1 IN
    /\ k <= MaxFolds
    /\ k <= Len(FoldNames)
    /\ acc' = Fold(acc, <<FoldNames[k]>>, <<FoldNames[k]>>, agent,
                   Valuation(amount, category), BlobSha(FoldNames[k]))
    /\ UNCHANGED <<pipelineVars, compute>>

NextFold ==
    \E amount \in Amounts, category \in Categories, agent \in FoldTypes :
        FoldValuation(amount, category, agent)

SpecFold == InitFold /\ [][NextFold]_vars

(***************************************************************************)
(* Helpers of the properties.                                              *)
(***************************************************************************)
\* every DailyMetrics there is: in the memory of a run, and the stored one
AllMetrics ==
    {daily_metrics[p] : p \in Procs} \cup
    (IF metrics_file.kind = "metrics" THEN {metrics_file.m} ELSE {})

TagIn(m, sha) ==
    \E i \in 1..Len(m.processed_result_file_shas) :
        m.processed_result_file_shas[i] = sha

EventsOfTag(m, sha) ==
    {i \in 1..Len(m.detailed_value_breakdown) :
        m.detailed_value_breakdown[i].file_sha = sha}

EventsOfCategory(m, cat) ==
    {i \in 1..Len(m.detailed_value_breakdown) :
        m.detailed_value_breakdown[i].value_category = cat}

RECURSIVE SumOver(_, _)
SumOver(m, is) ==
    IF is = {} THEN 0
    ELSE LET i == CHOOSE x \in is : TRUE IN
         m.detailed_value_breakdown[i].value_usd + SumOver(m, is \ {i})

NoRunInProgress == \A p \in Procs : Terminated(p)

\* the run took a step of its own that was not its interruption
Stepped(p) ==
    /\ pc'[p] # "Idle"
    /\ <<pc[p], idx[p]>> # <<pc'[p], idx'[p]>>

\* the totals, counts, per-agent totals, events and processed tags
Accounting(m) == [m EXCEPT !.errors_processing_results = <<>>]

(***************************************************************************)
(* C1: at-most-once fold.  In every DailyMetrics, in memory or stored, no  *)
(* version tag occurs twice in processed_result_file_shas, no tag has more *)
(* than one detailed event, and the totals and counts are those of the     *)
(* events: one contribution for each tag.                                  *)
(***************************************************************************)
FoldedOnce(m) ==
    /\ \A i, j \in 1..Len(m.processed_result_file_shas) :
          m.processed_result_file_shas[i] = m.processed_result_file_shas[j]
              => i = j
    /\ \A i \in 1..Len(m.detailed_value_breakdown) :
          /\ Cardinality(EventsOfTag(m, m.detailed_value_breakdown[i].file_sha)) = 1
          /\ TagIn(m, m.detailed_value_breakdown[i].file_sha)
    /\ m.total_crypto_pnl_usd = SumOver(m, EventsOfCategory(m, "crypto"))
    /\ m.total_fiat_value_usd = SumOver(m, EventsOfCategory(m, "fiat"))
    /\ m.crypto_trades_count = Cardinality(EventsOfCategory(m, "crypto"))
    /\ m.fiat_tasks_count = Cardinality(EventsOfCategory(m, "fiat"))
    /\ m.operational_tasks_count =
          Cardinality(EventsOfCategory(m, "operational"))

C1_AtMostOnceFold == \A m \in AllMetrics : FoldedOnce(m)

\* a later run has met, and skipped, every record it listed: all of them
\* were folded into the snapshot it loaded
AllListedSkipped(p) ==
    /\ pc[p] \in {"Persisting", "Reporting"}
    /\ result_files[p] # <<>>
    /\ new_files_processed_this_run[p] = 0
    /\ \A i \in 1..Len(result_files[p]) :
          TagIn(daily_metrics[p], result_files[p][i].sha)

C1_Witness ==
    \E p \in Procs :
        /\ runs = 2
        /\ AllListedSkipped(p)
        /\ pc[p] = "Persisting"
        /\ daily_metrics[p].total_fiat_value_usd # 0

(***************************************************************************)
(* C2: exactly-once counting.  Once no run is in progress and a readable,  *)
(* parseable record that was written to pending storage is no longer       *)
(* there, the stored DailyMetrics holds exactly one detailed event of it.  *)
(***************************************************************************)
Foldable(f) ==
    /\ JsonLoads(f.content).ok
    /\ ~calculate_task_value(TaskType(JsonLoads(f.content).data, f.name),
                             TaskPayload(JsonLoads(f.content).data)).raised

StoredEventsOf(f) ==
    IF metrics_file.kind # "metrics" THEN {}
    ELSE {i \in 1..Len(metrics_file.m.detailed_value_breakdown) :
            /\ metrics_file.m.detailed_value_breakdown[i].file_path = f.name
            /\ metrics_file.m.detailed_value_breakdown[i].file_sha =
                   BlobSha(f.content)}

C2_ExactlyOnceCounting ==
    \A f \in written :
        (Foldable(f) /\ NoRunInProgress /\ pending[f.name] = Absent)
            => Cardinality(StoredEventsOf(f)) = 1

(***************************************************************************)
(* C3: re-run idempotence.  A run over records that an earlier run folded  *)
(* and persisted (every listed record that can be folded has its tag in    *)
(* the stored snapshot) leaves the stored totals, counts, per-agent        *)
(* totals, detailed events and processed tags as they were.                *)
(***************************************************************************)
\* a listed record the pipeline can fold: readable, parseable, valued
ListedFoldable(info) ==
    \E f \in written :
        /\ f.name = info.name
        /\ BlobSha(f.content) = info.sha
        /\ Foldable(f)

\* the run is about to persist, and every record it listed that can be
\* folded is in the stored snapshot, put there by an earlier run
RerunOverFolded(p) ==
    /\ pc[p] = "Persisting"
    /\ result_files[p] # <<>>
    /\ metrics_file.kind = "metrics"
    /\ \A i \in 1..Len(result_files[p]) :
          \/ TagIn(metrics_file.m, result_files[p][i].sha)
          \/ ~ListedFoldable(result_files[p][i])

C3_RerunIdempotent ==
    [][\A p \in Procs :
          (RerunOverFolded(p) /\ Stepped(p))
              => /\ metrics_file'.kind = "metrics"
                 /\ Accounting(metrics_file'.m) = Accounting(metrics_file.m)]_vars

C3_Witness ==
    \E p \in Procs :
        /\ pc[p] = "Reporting"
        /\ persist_writes[p] = 1
        /\ ~persist_failed[p]
        /\ AllListedSkipped(p)
        /\ metrics_file.kind = "metrics"
        /\ \A i \in 1..Len(result_files[p]) :
              TagIn(metrics_file.m, result_files[p][i].sha)

(***************************************************************************)
(* C4: the skip is a no-op.  When the loop meets a listed record whose     *)
(* version tag is in processed_result_file_shas, the step changes nothing  *)
(* of daily_metrics (no total, count, event or error entry), issues no     *)
(* remote call (no read, archive write or delete) and leaves the           *)
(* repository as it was.                                                   *)
(***************************************************************************)
AtProcessedRecord(p) ==
    /\ InLoop(p)
    /\ TagIn(daily_metrics[p], file_info(p).sha)

C4_SkipIsNoOp ==
    [][\A p \in Procs :
          (AtProcessedRecord(p) /\ Stepped(p))
              => /\ daily_metrics'[p] = daily_metrics[p]
                 /\ calls'[p] = <<>>
                 /\ new_files_processed_this_run'[p] =
                        new_files_processed_this_run[p]
                 /\ UNCHANGED repoVars]_vars

C4_Witness ==
    \E p \in Procs :
        /\ pc[p] \in {"Ingesting", "Persisting"}
        /\ idx[p] > 1
        /\ calls[p] = <<>>
        /\ TagIn(daily_metrics[p], result_files[p][idx[p] - 1].sha)
        /\ pending[result_files[p][idx[p] - 1].name] # Absent

(***************************************************************************)
(* C5: the grand total.  In every DailyMetrics, after every fold,          *)
(* grand_total_value_usd = total_crypto_pnl_usd + total_fiat_value_usd.    *)
(***************************************************************************)
C5_GrandTotal ==
    \A m \in AllMetrics :
        m.grand_total_value_usd =
            m.total_crypto_pnl_usd + m.total_fiat_value_usd

C5_Witness ==
    \E p \in Procs :
        /\ Len(daily_metrics[p].detailed_value_breakdown) >= 2
        /\ daily_metrics[p].total_crypto_pnl_usd < 0
        /\ daily_metrics[p].total_fiat_value_usd > 0

(***************************************************************************)
(* C6: a failed persist is fatal and suppresses the report.  The step in   *)
(* which the write of the metrics snapshot fails takes the run to Error,   *)
(* not to Reporting, and leaves the stored snapshot as it was.             *)
(***************************************************************************)
C6_PersistFailureIsFatal ==
    [][\A p \in Procs :
          (persist_failed'[p] /\ ~persist_failed[p])
              => /\ pc'[p] = "Error"
                 /\ metrics_file' = metrics_file]_vars

(***************************************************************************)
(* C7: optimistic-concurrency persist.  Every write of the snapshot sends  *)
(* as expected version the version tag of the snapshot that Loading read   *)
(* in the same run, and no step takes a processed tag out of the stored    *)
(* snapshot.                                                               *)
(***************************************************************************)
PersistWrites(p) ==
    /\ pc[p] = "Persisting"
    /\ ShouldSave(p)
    /\ Stepped(p)

C7_PersistCarriesLoadedVersion ==
    [][/\ \A p \in Procs :
             PersistWrites(p) => SaveSha(p) = snapshot_at_load[p]
       /\ metrics_file.kind = "metrics"
             => /\ metrics_file'.kind = "metrics"
                /\ \A i \in 1..Len(metrics_file.m.processed_result_file_shas) :
                      TagIn(metrics_file'.m,
                            metrics_file.m.processed_result_file_shas[i])]_vars

(***************************************************************************)
(* C8: per-record failures are soft.  Whatever fails for a record (its     *)
(* read, parse, valuation, archival copy or archival delete), the loop     *)
(* goes on to the next listed record or to Persisting, never to Error,     *)
(* and when the loop is left every record that failed is listed in         *)
(* errors_processing_results.                                              *)
(***************************************************************************)
InRecordLoop(phase) == phase \in {"Ingesting", "Archiving", "Deleting"}

ListedAsError(m, file_path) ==
    \E i \in 1..Len(m.errors_processing_results) :
        m.errors_processing_results[i].file_path = file_path

C8_PerRecordFailuresSoft ==
    [][\A p \in Procs :
          (InRecordLoop(pc[p]) /\ Stepped(p))
              => /\ InRecordLoop(pc'[p]) \/ pc'[p] = "Persisting"
                 /\ pc'[p] = "Persisting"
                       => \A n \in soft_failed'[p] :
                             ListedAsError(daily_metrics'[p], n)]_vars

(***************************************************************************)
(* C9: Reporting always runs after Persisting.  A run whose persist has    *)
(* not failed changes phase only along Loading, Discovering, Ingesting     *)
(* (zero or more records), Persisting, Reporting, Done.                    *)
(***************************************************************************)
PhaseOrder(a, b) ==
    \/ a = "Idle" /\ b = "Loading"
    \/ a = "Loading" /\ b = "Discovering"
    \/ a = "Discovering" /\ b \in {"Ingesting", "Persisting"}
    \/ InRecordLoop(a) /\ (InRecordLoop(b) \/ b = "Persisting")
    \/ a = "Persisting" /\ b = "Reporting"
    \/ a = "Reporting" /\ b = "Done"

C9_ReportingAfterPersisting ==
    [][\A p \in Procs :
          (pc'[p] # pc[p] /\ pc'[p] # "Idle" /\ ~persist_failed'[p])
              => PhaseOrder(pc[p], pc'[p])]_vars

(***************************************************************************)
(* C10: the empty day.  As specified: a run whose listing was empty has    *)
(* issued one write of the metrics snapshot when it enters Reporting, and  *)
(* if that write did not fail the snapshot is in storage.                  *)
(***************************************************************************)
EmptyDayReporting(p) ==
    /\ pc[p] = "Reporting"
    /\ result_files[p] = <<>>

C10_EmptyDayAlwaysPersists ==
    \A p \in Procs :
        EmptyDayReporting(p)
            => /\ persist_writes[p] = 1
               /\ ~persist_failed[p] => metrics_file.kind = "metrics"

(***************************************************************************)
(* C10, as the code has it: a run whose listing was empty has issued the   *)
(* write of the metrics snapshot exactly when Loading gave it no version   *)
(* tag (no snapshot, or one it could not read or parse); a run that        *)
(* loaded a snapshot issues no write and the snapshot stays; a write that  *)
(* did not fail has stored the run's DailyMetrics.                         *)
(***************************************************************************)
C10_EmptyDayPersistsWithoutSnapshot ==
    \A p \in Procs :
        EmptyDayReporting(p)
            => /\ persist_writes[p] = (IF metrics_file_sha[p] = NoSha THEN 1 ELSE 0)
               /\ metrics_file_sha[p] # NoSha
                     => /\ metrics_file.kind = "metrics"
                        /\ metrics_file_sha[p] = BlobSha(metrics_file)
               /\ (persist_writes[p] = 1 /\ ~persist_failed[p])
                     => metrics_file = MetricsFile(daily_metrics[p])

C10_Witness ==
    \E p \in Procs :
        /\ EmptyDayReporting(p)
        /\ metrics_file_sha[p] # NoSha
        /\ persist_writes[p] = 0
        /\ Len(metrics_file.m.detailed_value_breakdown) >= 1

(***************************************************************************)
(* C11: retry until ingested.  A step of the loop in which the read or     *)
(* the parse of a record fails does not put the record's tag among the     *)
(* processed ones; a later run that meets a record whose read or parse     *)
(* failed before, still pending, does not skip it; and when its read and   *)
(* parse then succeed the record is folded: one event of its tag.          *)
(***************************************************************************)
ReadOrParseErrors == {"Could not get content", "Error parsing JSON"}

\* the step appends an error entry of a failed read or parse
ReadOrParseFails(p) ==
    LET before == daily_metrics[p].errors_processing_results
        after == daily_metrics'[p].errors_processing_results IN
    /\ Len(after) = Len(before) + 1
    /\ after[Len(after)].error \in ReadOrParseErrors

\* an earlier run left an error entry of a failed read or parse of the
\* record the loop is at
FailedEarlier(p) ==
    \E i \in 1..Len(daily_metrics[p].errors_processing_results) :
        /\ daily_metrics[p].errors_processing_results[i].file_path =
               file_info(p).name
        /\ daily_metrics[p].errors_processing_results[i].error
               \in ReadOrParseErrors

\* the loop goes to the next record without a call
Skips(p) == calls'[p] = <<>> /\ idx'[p] = idx[p] + 1

\* the step read the record and parsed it
ReadsAndParses(p) ==
    /\ calls'[p] = ReadCall(p)
    /\ ~ReadOrParseFails(p)

C11_RetryUntilIngested ==
    [][\A p \in Procs :
          (InLoop(p) /\ Stepped(p))
              => /\ ReadOrParseFails(p)
                    => ~TagIn(daily_metrics'[p], file_info(p).sha)
                 /\ (FailedEarlier(p) /\ pending[file_info(p).name] # Absent)
                    => ~Skips(p)
                 /\ (FailedEarlier(p) /\ ReadsAndParses(p))
                    => Cardinality(EventsOfTag(daily_metrics'[p],
                                               file_info(p).sha)) = 1]_vars

(***************************************************************************)
(* C12: the override law.  For every task type, in the table or not, and   *)
(* every payload whose pnl_usdt is a number or a numeric string, the       *)
(* valuation is that number (negative ones too) in category crypto.        *)
(***************************************************************************)
IsNumeric(v) == v.k \in {"num", "numstr"}

HasNumericPnl(d) == "pnl_usdt" \in DOMAIN d /\ IsNumeric(d["pnl_usdt"])

C12_OverrideLaw ==
    (compute.done /\ HasNumericPnl(compute.payload))
        => compute.result =
               [raised |-> FALSE, value |-> compute.payload["pnl_usdt"].n,
                category |-> "crypto"]

C12_Witness ==
    /\ compute.done
    /\ compute.task_type = "github_arbitrage"
    /\ DOMAIN compute.payload = PayloadKeys
    /\ compute.payload["pnl_usdt"] = Num(-12)
    /\ compute.result.value = -12
    /\ compute.result.category = "crypto"

(***************************************************************************)
(* C13: unknown task types.  As specified: for a task type that is not in  *)
(* the table and any payload, the valuation is 0 in category unknown and   *)
(* nothing is raised.                                                      *)
(***************************************************************************)
Unlisted(t) == t \notin DOMAIN AGENT_VALUE_ESTIMATES

ZeroUnknown == [raised |-> FALSE, value |-> 0, category |-> "unknown"]

C13_UnknownTypeIsZeroUnknown ==
    (compute.done /\ Unlisted(compute.task_type))
        => compute.result = ZeroUnknown

(***************************************************************************)
(* C13, as the code has it: for a task type that is not in the table the   *)
(* valuation is 0 in category unknown, nothing raised, for every payload   *)
(* without a numeric pnl_usdt; with one, the override law applies and the  *)
(* valuation is that number in category crypto.                            *)
(***************************************************************************)
C13_UnknownTypeWithoutPnl ==
    (compute.done /\ Unlisted(compute.task_type))
        => compute.result =
               IF HasNumericPnl(compute.payload)
               THEN [raised |-> FALSE,
                     value |-> compute.payload["pnl_usdt"].n,
                     category |-> "crypto"]
               ELSE ZeroUnknown

C13_Witness ==
    /\ compute.done
    /\ Unlisted(compute.task_type)
    /\ DOMAIN compute.payload = PayloadKeys
    /\ compute.payload["pnl_usdt"] = Text
    /\ compute.payload["valuable_patents_found_count"] = NumStr(5)
    /\ compute.result = ZeroUnknown

(***************************************************************************)
(* C14: the valuation is total.  For every task type and payload, with a   *)
(* string, null, list or mapping under any key, nothing is raised, and an  *)
(* amount that is not a number is returned as 0.                           *)
(***************************************************************************)
C14_ComputeIsTotal ==
    compute.done
        => /\ ~compute.result.raised
           /\ \A key \in DOMAIN compute.payload :
                 (/\ ~HasNumericPnl(compute.payload)
                  /\ ValueConfig(compute.task_type).type = "payload_field"
                  /\ ValueConfig(compute.task_type).field = key
                  /\ ~IsNumeric(compute.payload[key]))
                     => compute.result.value = 0

(***************************************************************************)
(* C20: the policy variants, for a payload without pnl_usdt.  per_item:    *)
(* the fixed value; payload_field: the number under the field, or the      *)
(* default when the field is absent; per_item_conditional: the count (a    *)
(* JSON number) times the value per item, or 0 when the count field is     *)
(* absent; count_only: 0.  The category is the policy's.                   *)
(***************************************************************************)
PolicyOf(t) ==
    IF Unlisted(t) THEN AGENT_VALUE_ESTIMATES["unknown_type_default"]
    ELSE AGENT_VALUE_ESTIMATES[t]

Yields(amount) ==
    compute.result =
        [raised |-> FALSE, value |-> amount,
         category |-> PolicyOf(compute.task_type).value_category]

C20_PolicyVariants ==
    LET cfg == PolicyOf(compute.task_type)
        d == compute.payload IN
    (compute.done /\ "pnl_usdt" \notin DOMAIN d)
        => /\ cfg.type = "per_item" => Yields(cfg.value)
           /\ cfg.type = "count_only" => Yields(0)
           /\ (cfg.type = "payload_field" /\ cfg.field \notin DOMAIN d)
                 => Yields(cfg.default)
           /\ (cfg.type = "payload_field" /\ cfg.field \in DOMAIN d
                  /\ IsNumeric(DictGet(d, cfg.field, Null)))
                 => Yields(d[cfg.field].n)
           /\ (cfg.type = "per_item_conditional"
                  /\ cfg.count_field \notin DOMAIN d)
                 => Yields(0)
           /\ (cfg.type = "per_item_conditional" /\ cfg.count_field \in DOMAIN d
                  /\ DictGet(d, cfg.count_field, Null).k = "num")
                 => Yields(d[cfg.count_field].n * cfg.value_per_item)

C20_Witness ==
    /\ compute.done
    /\ compute.task_type = "patent_scraper"
    /\ DOMAIN compute.payload = {"valuable_patents_found_count"}
    /\ compute.payload["valuable_patents_found_count"] = Num(3)
    /\ compute.result.value = 3000
    /\ compute.result.category = "fiat"

(***************************************************************************)
(* C15: a failed read or parse leaves the accumulator untouched.  The      *)
(* step of the loop at a new record whose read or parse fails appends one  *)
(* error entry for the record, changes no total, count, per-agent total,   *)
(* event or processed tag, issues the read and no other call, and leaves   *)
(* the repository as it was.                                               *)
(***************************************************************************)
\* the step at a new record goes on without having read and parsed it
FailsToReadOrParse(p) ==
    LET before == daily_metrics[p].errors_processing_results
        after == daily_metrics'[p].errors_processing_results IN
    /\ InLoop(p)
    /\ ~TagIn(daily_metrics[p], file_info(p).sha)
    /\ pc'[p] \notin {"Idle", "Archiving"}
    /\ <<pc[p], idx[p]>> # <<pc'[p], idx'[p]>>
    /\ ~(/\ Len(after) = Len(before) + 1
         /\ after[Len(after)].error = "Unexpected error")

C15_FailedReadLeavesAccumulator ==
    [][\A p \in Procs :
          FailsToReadOrParse(p)
              => /\ Len(daily_metrics'[p].errors_processing_results) =
                        Len(daily_metrics[p].errors_processing_results) + 1
                 /\ ListedAsError(daily_metrics'[p], file_info(p).name)
                 /\ Accounting(daily_metrics'[p]) = Accounting(daily_metrics[p])
                 /\ calls'[p] = ReadCall(p)
                 /\ UNCHANGED repoVars]_vars

(***************************************************************************)
(* C16: a corrupt snapshot is never fatal.  A run whose Loading found a    *)
(* stored snapshot it could not parse does not end in Error unless a       *)
(* remote call fails on its own account, and its persist step stores the   *)
(* run's DailyMetrics.                                                     *)
(***************************************************************************)
\* Loading read a stored file and returned no metrics of it
LoadedCorrupt(p) ==
    /\ snapshot_at_load[p] # NoSha
    /\ metrics_file_sha[p] = NoSha

C16_CorruptSnapshotNotFatal ==
    [][\A p \in Procs :
          (LoadedCorrupt(p) /\ pc'[p] # pc[p] /\ faults' = faults)
              => /\ pc'[p] # "Error"
                 /\ pc[p] = "Persisting"
                       => metrics_file' = MetricsFile(daily_metrics[p])]_vars

(***************************************************************************)
(* C17: the order of the archive protocol.  The archive copy of a record   *)
(* is attempted only once the record is folded and its tag is among the    *)
(* processed ones; the delete is issued only after the archive write of    *)
(* the record succeeded in the same run; so a record that was written and  *)
(* is gone from pending storage is in the archive, under its name.         *)
(***************************************************************************)
C17_ArchiveProtocolOrder ==
    /\ \A p \in Procs :
          pc[p] \in {"Archiving", "Deleting"}
              => /\ TagIn(daily_metrics[p], file_info(p).sha)
                 /\ Cardinality(EventsOfTag(daily_metrics[p],
                                            file_info(p).sha)) = 1
    /\ \A p \in Procs :
          pc[p] = "Deleting"
              => /\ calls[p] = CopyCalls(p)
                 /\ archive[file_info(p).name] # Absent
    /\ \A f \in written :
          pending[f.name] = Absent => archive[f.name] = f.content

C17_Witness ==
    \E f \in written, p \in Procs :
        /\ pending[f.name] = Absent
        /\ archive[f.name] = f.content
        /\ pc[p] = "Persisting"
        /\ calls[p] = <<Call("DELETE", OutputsPath(f.name))>>
        /\ TagIn(daily_metrics[p], BlobSha(f.content))

(***************************************************************************)
(* C18: category routing.  Every fold adds one to the count of one         *)
(* category, so the category counts add up to the number of detailed       *)
(* events.                                                                 *)
(***************************************************************************)
CountsSum(m) ==
    m.crypto_trades_count + m.fiat_tasks_count + m.operational_tasks_count

C18_CategoryRouting ==
    [][/\ CountsSum(acc') = CountsSum(acc) + 1
       /\ CountsSum(acc') = Len(acc'.detailed_value_breakdown)]_vars

(***************************************************************************)
(* C19: occurrence-only categories.  A fold of a valuation of category     *)
(* operational or unknown, whatever its amount, leaves                     *)
(* grand_total_value_usd, total_crypto_pnl_usd and total_fiat_value_usd    *)
(* as they were, appends one detailed event and adds the version tag.      *)
(***************************************************************************)
LastEvent(m) == m.detailed_value_breakdown[Len(m.detailed_value_breakdown)]

C19_OccurrenceOnly ==
    [][(/\ Len(acc'.detailed_value_breakdown) > 0
        /\ LastEvent(acc').value_category \in {"operational", "unknown"})
          => /\ acc'.grand_total_value_usd = acc.grand_total_value_usd
             /\ acc'.total_crypto_pnl_usd = acc.total_crypto_pnl_usd
             /\ acc'.total_fiat_value_usd = acc.total_fiat_value_usd
             /\ Len(acc'.detailed_value_breakdown) =
                    Len(acc.detailed_value_breakdown) + 1
             /\ acc'.processed_result_file_shas =
                    Append(acc.processed_result_file_shas,
                           LastEvent(acc').file_sha)]_vars

C19_Witness ==
    /\ Len(acc.detailed_value_breakdown) = 2
    /\ acc.detailed_value_breakdown[1].value_category = "crypto"
    /\ acc.detailed_value_breakdown[1].value_usd = -5
    /\ LastEvent(acc).value_category = "operational"
    /\ LastEvent(acc).value_usd = 7
    /\ acc.grand_total_value_usd = -5
    /\ Len(acc.processed_result_file_shas) = 2

(***************************************************************************)
(* C21: no partial writes.  The stored snapshot changes only in the        *)
(* persist step of a run, at most once in the run, and what is stored is   *)
(* the run's whole DailyMetrics; no step of Loading, Discovering or the    *)
(* loop, and no interruption, changes it.                                  *)
(***************************************************************************)
C21_NoPartialWrites ==
    [][metrics_file' # metrics_file
          => \E p \in Procs :
                /\ pc[p] = "Persisting"
                /\ pc'[p] \in {"Reporting", "Error"}
                /\ persist_writes[p] = 0
                /\ metrics_file' = MetricsFile(daily_metrics[p])]_vars

C21_Witness ==
    \E p \in Procs :
        /\ pc[p] = "Reporting"
        /\ persist_writes[p] = 1
        /\ ~persist_failed[p]
        /\ metrics_file = MetricsFile(daily_metrics[p])
        /\ Len(daily_metrics[p].detailed_value_breakdown) = 2
        /\ daily_metrics[p].errors_processing_results # <<>>

(***************************************************************************)
(* C22: the gate within a run.  When the loop is at a record whose version *)
(* tag is that of a record earlier in the same listing, under another      *)
(* name, which this run has folded (the stored snapshot does not hold the  *)
(* tag), there is one event of that tag, and the step at the later record  *)
(* is a skip: daily_metrics keeps its events and error entries, no remote  *)
(* call is issued, neither pending nor archive storage changes, and the    *)
(* loop moves on to the next record.                                       *)
(***************************************************************************)
StoredTag(sha) == metrics_file.kind = "metrics" /\ TagIn(metrics_file.m, sha)

\* the positions before the current one that hold the same blob under
\* another name and have an event in this run's daily_metrics
FoldedTwinsBefore(p) ==
    {j \in 1..(idx[p] - 1) :
        /\ result_files[p][j].sha = file_info(p).sha
        /\ result_files[p][j].name # file_info(p).name
        /\ \E i \in 1..Len(daily_metrics[p].detailed_value_breakdown) :
              /\ daily_metrics[p].detailed_value_breakdown[i].file_path =
                     result_files[p][j].name
              /\ daily_metrics[p].detailed_value_breakdown[i].file_sha =
                     file_info(p).sha}

AtTwinOfFolded(p) ==
    /\ InLoop(p)
    /\ ~StoredTag(file_info(p).sha)
    /\ FoldedTwinsBefore(p) # {}

C22_GateWithinRun ==
    [][\A p \in Procs :
          (AtTwinOfFolded(p) /\ Stepped(p))
              => /\ Cardinality(EventsOfTag(daily_metrics[p],
                                            file_info(p).sha)) = 1
                 /\ daily_metrics'[p] = daily_metrics[p]
                 /\ calls'[p] = <<>>
                 /\ soft_failed'[p] = soft_failed[p]
                 /\ idx'[p] = idx[p] + 1
                 /\ pc'[p] \in {"Ingesting", "Persisting"}
                 /\ UNCHANGED <<pending, archive>>]_vars

\* the second of two twins has just been skipped; the first was folded by
\* this run and its archival went through, the second is still pending
C22_Witness ==
    \E p \in Procs :
        /\ pc[p] = "Persisting"
        /\ idx[p] = 3
        /\ calls[p] = <<>>
        /\ new_files_processed_this_run[p] = 1
        /\ result_files[p][1].sha = result_files[p][2].sha
        /\ ~StoredTag(result_files[p][2].sha)
        /\ Len(daily_metrics[p].detailed_value_breakdown) = 1
        /\ daily_metrics[p].detailed_value_breakdown[1].file_path =
               result_files[p][1].name
        /\ daily_metrics[p].errors_processing_results = <<>>
        /\ pending[result_files[p][1].name] = Absent
        /\ archive[result_files[p][1].name] # Absent
        /\ pending[result_files[p][2].name] # Absent
        /\ archive[result_files[p][2].name] = Absent

(***************************************************************************)
(* C23: archival is never retried.  No step of a run issues an archive     *)
(* write or a pending delete for a record whose version tag is in the      *)
(* stored processed_result_file_shas, and no step takes such a record out  *)
(* of pending storage.                                                     *)
(***************************************************************************)
IssuesArchival(p) ==
    /\ pc[p] \in {"Archiving", "Deleting"}
    /\ Stepped(p)
    /\ \E i \in 1..Len(calls'[p]) :
          calls'[p][i] \in {Call("PUT", ArchivePath(file_info(p).name)),
                            Call("DELETE", OutputsPath(file_info(p).name))}

C23_ArchivalNeverRetried ==
    [][/\ \A p \in Procs :
             IssuesArchival(p) => ~StoredTag(file_info(p).sha)
       /\ \A n \in Names :
             (pending[n] # Absent /\ StoredTag(BlobSha(pending[n])))
                 => pending'[n] # Absent]_vars

(***************************************************************************)
(* C24: events and processed tags in lockstep.  After every step, every    *)
(* DailyMetrics, in memory or stored, has as many detailed events as       *)
(* processed tags and no tag twice in its list; a fold appends one event   *)
(* and one tag, and no other step of a run that is past Loading and goes  *)
(* on changes the events or the tags.                                      *)
(***************************************************************************)
Lockstep(m) ==
    /\ Len(m.detailed_value_breakdown) = Len(m.processed_result_file_shas)
    /\ Cardinality({m.processed_result_file_shas[i] :
                       i \in 1..Len(m.processed_result_file_shas)}) =
           Len(m.processed_result_file_shas)

IsFoldStep(p) ==
    /\ pc[p] = "Ingesting"
    /\ pc'[p] = "Archiving"
    /\ Len(daily_metrics'[p].detailed_value_breakdown) =
           Len(daily_metrics[p].detailed_value_breakdown) + 1
    /\ SubSeq(daily_metrics'[p].detailed_value_breakdown, 1,
              Len(daily_metrics[p].detailed_value_breakdown)) =
           daily_metrics[p].detailed_value_breakdown
    /\ daily_metrics'[p].processed_result_file_shas =
           Append(daily_metrics[p].processed_result_file_shas,
                  file_info(p).sha)

C24_EventsAndTagsInLockstep ==
    [][/\ \A p \in Procs : Lockstep(daily_metrics'[p])
       /\ metrics_file'.kind = "metrics" => Lockstep(metrics_file'.m)
       /\ \A p \in Procs :
             (pc[p] \notin {"Idle", "Loading"} /\ ~Terminated(p)')
                 => \/ IsFoldStep(p)
                    \/ /\ daily_metrics'[p].detailed_value_breakdown =
                              daily_metrics[p].detailed_value_breakdown
                       /\ daily_metrics'[p].processed_result_file_shas =
                              daily_metrics[p].processed_result_file_shas]_vars

\* a second run has folded a record on top of the one it loaded, and an
\* error entry was appended without an event or a tag
C24_Witness ==
    \E p \in Procs :
        /\ pc[p] = "Archiving"
        /\ runs = 2
        /\ metrics_file.kind = "metrics"
        /\ Len(metrics_file.m.detailed_value_breakdown) = 1
        /\ Len(daily_metrics[p].detailed_value_breakdown) = 2
        /\ Len(daily_metrics[p].processed_result_file_shas) = 2
        /\ daily_metrics[p].processed_result_file_shas[1] #
               daily_metrics[p].processed_result_file_shas[2]
        /\ daily_metrics[p].errors_processing_results # <<>>

=============================================================================
